---- MODULE Spec2Model ----
(***************************************************************************)
(* A model of the plate-scanning application:                              *)
(*   - the CameraScanner component (camera acquisition, capture,           *)
(*     recognition call, staged plate, Save / Redo),                       *)
(*   - the recognition adapter initiateScanWithPrompt,                     *)
(*   - the ScanHistory component (summary request over the history).       *)
(*                                                                         *)
(* The repository holds several revisions of CameraScanner and of the      *)
(* recognition flow.  The variable `revision` selects the CameraScanner    *)
(* revision that is running; FlowOf gives the flow revision it calls.      *)
(*                                                                         *)
(* Strings are sequences of one-character strings, so that trim and        *)
(* toUpperCase are computed and not assumed.                               *)
(***************************************************************************)
EXTENDS Integers, Sequences, FiniteSets, TLC

(***************************************************************************)
(* Bounds of the model.                                                    *)
(***************************************************************************)
\* longest plate string the recognition service returns
MaxPlateLen == 2
\* number of Save clicks explored
MaxAccepts == 2
\* cap on simultaneously outstanding recognition calls (the code has none)
MaxOutstanding == 2
\* number of direct calls of the recognition adapter explored
MaxAdapterCalls == 2
\* longest history explored
MaxHistory == 2
\* number of summary requests that reach the summarization service
MaxSummaries == 2
\* latest clock value (seconds) a record is stamped with
MaxClock == 1

(***************************************************************************)
(* Strings.                                                                *)
(***************************************************************************)
\* characters of the strings the recognition service may return
Chars == {" ", "\n", "a"}

\* String.prototype.trim removes white space and line terminators
Whitespace == {" ", "\n"}

Strs(n) == UNION {[1..k -> Chars] : k \in 0..n}

RECURSIVE trimStart(_)
trimStart(s) ==
    IF s # <<>> /\ Head(s) \in Whitespace THEN trimStart(Tail(s)) ELSE s

RECURSIVE trimEnd(_)
trimEnd(s) ==
    IF s # <<>> /\ s[Len(s)] \in Whitespace
    THEN trimEnd(SubSeq(s, 1, Len(s) - 1))
    ELSE s

trim(s) == trimEnd(trimStart(s))

toUpperCaseChar(c) == IF c = "a" THEN "A" ELSE c

toUpperCase(s) == [i \in DOMAIN s |-> toUpperCaseChar(s[i])]

\* the value null of a `string | null` state; no string equals it
Null == <<"null">>

\* JavaScript truthiness of a `string | null` value
Truthy(p) == p # Null /\ p # <<>>

(***************************************************************************)
(* Revisions.                                                              *)
(***************************************************************************)
ScannerRevisions == {"part_000", "camera_scanner", "scan_history"}

\* the flow revision whose input a CameraScanner revision supplies
FlowOf(rev) == IF rev = "part_000" THEN "prompt" ELSE "image"

\* the argument handleScan passes to initiateScanWithPrompt
ScanRequest(rev) ==
    CASE rev = "part_000"       -> [prompt |-> TRUE,  photoDataUri |-> FALSE]
      [] rev = "camera_scanner" -> [prompt |-> TRUE,  photoDataUri |-> TRUE]
      [] rev = "scan_history"   -> [prompt |-> FALSE, photoDataUri |-> TRUE]

\* whether the revision draws the frame on a canvas before the call
UsesCanvas(rev) == rev # "part_000"

(***************************************************************************)
(* The recognition adapter.                                                *)
(***************************************************************************)
\* a request: which of the two fields it carries
Requests == [prompt : BOOLEAN, photoDataUri : BOOLEAN]

FlowRevisions == {"prompt", "image"}

\* what the underlying prompt call does: it returns an output object,
\* returns no output (null), or throws
ServiceOutputs == Strs(MaxPlateLen)

ServiceResponses ==
    {[kind |-> "output", plateNumber |-> s] : s \in ServiceOutputs}
    \cup {[kind |-> "null", plateNumber |-> <<>>],
          [kind |-> "throws", plateNumber |-> <<>>]}

\* an input schema that asks for at least one of the two fields
InitiateScanWithPromptInputSchema_EitherField(flow, req) ==
    req.prompt \/ req.photoDataUri

\* z.object validation of the input: the required field must be present
\* (an unknown key is stripped, an optional key may be absent)
InitiateScanWithPromptInputSchema(flow, req) ==
    IF flow = "prompt" THEN req.prompt ELSE req.photoDataUri

\* validation of the flow's return value: an object with a string plateNumber
InitiateScanWithPromptOutputSchema(resp) == resp.kind = "output"

\* a flow that trims the plate before it returns it
initiateScanWithPromptFlow_Trims(flow, req, resp) ==
    IF ~InitiateScanWithPromptInputSchema(flow, req)
    THEN [kind |-> "error", error |-> "invalid_input", plateNumber |-> <<>>]
    ELSE IF ~InitiateScanWithPromptOutputSchema(resp)
    THEN [kind |-> "error", error |-> "service", plateNumber |-> <<>>]
    ELSE [kind |-> "ok", error |-> "none",
          plateNumber |-> trim(resp.plateNumber)]

\* the flow: validate the input, await the prompt, return output!
initiateScanWithPromptFlow(flow, req, resp) ==
    IF ~InitiateScanWithPromptInputSchema(flow, req)
    THEN [kind |-> "error", error |-> "invalid_input", plateNumber |-> <<>>]
    ELSE IF ~InitiateScanWithPromptOutputSchema(resp)
    THEN [kind |-> "error", error |-> "service", plateNumber |-> <<>>]
    ELSE [kind |-> "ok", error |-> "none", plateNumber |-> resp.plateNumber]

initiateScanWithPrompt(flow, req, resp) ==
    initiateScanWithPromptFlow(flow, req, resp)

(***************************************************************************)
(* State.                                                                  *)
(***************************************************************************)
VARIABLES
    revision,       \* the CameraScanner revision that runs
    mounted,        \* the component instance is mounted
    acquisition,    \* getUserMedia: "idle", "pending", "resolved", "rejected"
    stream,         \* useState stream
    closureStream,  \* `stream` as the effect's cleanup closure sees it
    liveStreams,    \* streams of this instance whose tracks are live
    isScanning,     \* useState isScanning
    isCapturing,    \* useState isCapturing
    detectedPlate,  \* useState detectedPlate
    outstanding,    \* recognition calls issued and not yet settled
    toast,          \* title of the last toast shown
    onScanCalls,    \* number of calls of the onScan prop
    lastEmitted,    \* argument of the last onScan call
    accepts,        \* number of Save clicks
    lastOp,         \* the handler that ran last, and its branch
    \* the recognition adapter, called directly
    flowRevision,   \* the flow revision that is deployed
    adapterPc,      \* "idle", "awaiting", "returned", "threw"
    adapterRequest, \* input of the current call
    adapterResponse,\* what the underlying prompt call answered
    adapterResult,  \* what initiateScanWithPrompt returned or threw
    adapterCalls,   \* number of calls made
    \* ScanHistory and the history its parent passes to it
    history,        \* prop history: ScanResult[]
    clock,          \* the time of the last onScan call, in seconds
    summary,        \* useState summary
    isSummarizing,  \* useState isSummarizing
    isSummaryOpen,  \* useState isSummaryOpen
    pending,        \* summarizeScanHistory calls not yet settled
    summarizeCalls, \* number of summarizeScanHistory calls issued
    lastScanHistory,\* scanHistory argument of the last call issued
    historyOp       \* the ScanHistory handler that ran last, and its branch

cameraVars == <<revision, mounted, acquisition, stream, closureStream,
                liveStreams, isScanning, isCapturing, detectedPlate,
                outstanding, toast, onScanCalls, lastEmitted, accepts, lastOp>>

adapterVars == <<flowRevision, adapterPc, adapterRequest, adapterResponse,
                 adapterResult, adapterCalls>>

historyVars == <<history, clock, summary, isSummarizing, isSummaryOpen,
                 pending, summarizeCalls, lastScanHistory, historyOp>>

vars == <<cameraVars, adapterVars, historyVars>>

\* what a CameraScanner handler cannot touch
nonCameraVars == <<adapterVars, historyVars>>

NoStream == "null"
UserStream == "userStream"

\* a state setter that would still apply its update after the unmount
SetState_AfterUnmount(cur, new) == new

\* a state setter: React drops the update of an unmounted component
SetState(cur, new) == IF mounted THEN new ELSE cur

\* MediaStream.getTracks().forEach(stop) behind the optional chaining
StoppedBy(s) == IF s = NoStream THEN {} ELSE {s}

\* the refs of the <video> and <canvas> elements are set while mounted
videoRefCurrent == mounted
canvasRefCurrent == mounted

\* the component state of the first render (useState initial values)
CameraFirstRender ==
    /\ mounted = TRUE
    /\ acquisition = "idle"
    /\ stream = NoStream
    /\ closureStream = NoStream
    /\ liveStreams = {}
    /\ isScanning = FALSE
    /\ isCapturing = FALSE
    /\ detectedPlate = Null
    /\ outstanding = 0
    /\ toast = "none"
    /\ onScanCalls = 0
    /\ lastEmitted = Null
    /\ accepts = 0
    /\ lastOp = "render"

CameraInit ==
    /\ revision \in ScannerRevisions
    /\ CameraFirstRender

\* the adapter before any direct call
NoResponse == [kind |-> "none", plateNumber |-> <<>>]
NoResult == [kind |-> "none", error |-> "none", plateNumber |-> <<>>]

AdapterIdle ==
    /\ adapterPc = "idle"
    /\ adapterRequest = [prompt |-> FALSE, photoDataUri |-> FALSE]
    /\ adapterResponse = NoResponse
    /\ adapterResult = NoResult
    /\ adapterCalls = 0

\* ScanHistory as first rendered, over an empty history
NoSummary == [kind |-> "null", request |-> 0]

HistoryInit ==
    /\ history = <<>>
    /\ clock = 0
    /\ summary = NoSummary
    /\ isSummarizing = FALSE
    /\ isSummaryOpen = FALSE
    /\ pending = {}
    /\ summarizeCalls = 0
    /\ lastScanHistory = <<>>
    /\ historyOp = "render"

Init ==
    /\ CameraInit
    /\ flowRevision = FlowOf(revision)
    /\ AdapterIdle
    /\ HistoryInit

(***************************************************************************)
(* CameraScanner: camera acquisition and teardown.                         *)
(***************************************************************************)
\* useEffect(..., []): runs once after the first render; its cleanup closes
\* over the `stream` of that render
setupCamera ==
    /\ mounted
    /\ acquisition = "idle"
    /\ acquisition' = "pending"
    /\ closureStream' = stream
    /\ lastOp' = "setupCamera"
    /\ UNCHANGED <<revision, mounted, stream, liveStreams, isScanning,
                   isCapturing, detectedPlate, outstanding, toast,
                   onScanCalls, lastEmitted, accepts>>
    /\ UNCHANGED nonCameraVars

\* getUserMedia resolves: the stream's tracks are live from here on
setupCameraResolved ==
    /\ acquisition = "pending"
    /\ acquisition' = "resolved"
    /\ liveStreams' = liveStreams \cup {UserStream}
    /\ stream' = SetState(stream, UserStream)
    /\ lastOp' = "camera_ready"
    /\ UNCHANGED <<revision, mounted, closureStream, isScanning, isCapturing,
                   detectedPlate, outstanding, toast, onScanCalls,
                   lastEmitted, accepts>>
    /\ UNCHANGED nonCameraVars

\* getUserMedia rejects: the catch block shows a toast and nothing else
setupCameraRejected ==
    /\ acquisition = "pending"
    /\ acquisition' = "rejected"
    /\ toast' = "Camera Error"
    /\ lastOp' = "camera_error"
    /\ UNCHANGED <<revision, mounted, stream, closureStream, liveStreams,
                   isScanning, isCapturing, detectedPlate, outstanding,
                   onScanCalls, lastEmitted, accepts>>
    /\ UNCHANGED nonCameraVars

\* unmount: the effect's cleanup stops the tracks of the stream it closed over
Unmount ==
    /\ mounted
    /\ acquisition # "idle"
    /\ mounted' = FALSE
    /\ liveStreams' = liveStreams \ StoppedBy(closureStream)
    /\ lastOp' = "unmount"
    /\ UNCHANGED <<revision, acquisition, stream, closureStream, isScanning,
                   isCapturing, detectedPlate, outstanding, toast,
                   onScanCalls, lastEmitted, accepts>>
    /\ UNCHANGED nonCameraVars

(***************************************************************************)
(* CameraScanner: capture, recognition call, staged plate.                 *)
(***************************************************************************)
\* the fallback list of the text-based demo revision
mockPlates ==
    { <<"A","B","C","-","1","2","3","4">>,
      <<"X","Y","Z","-","9","8","7","6">>,
      <<"D","L","-","5","S","B","-","1","0","2","9">>,
      <<"C","A","-","9","9","2","-","P","X">>,
      <<"T","X","-","B","4","5","-","9","2","0">> }

\* the scan button without the `!stream` half of its disabled condition
ScanButtonDisabled_IgnoresStream == isCapturing

\* <button onClick={handleScan} disabled={isCapturing || !stream}>
ScanButtonDisabled == isCapturing \/ stream = NoStream

\* the first line of handleScan
handleScanReturnsEarly ==
    IF UsesCanvas(revision)
    THEN isCapturing \/ ~videoRefCurrent \/ ~canvasRefCurrent
    ELSE isCapturing

\* handleScanBegin without setIsCapturing(true)
handleScanBegin_NoCapturingFlag ==
    /\ isCapturing' = isCapturing
    /\ isScanning' = SetState(isScanning, TRUE)

\* setIsCapturing(true); setIsScanning(true)
handleScanBegin ==
    /\ isCapturing' = SetState(isCapturing, TRUE)
    /\ isScanning' = SetState(isScanning, TRUE)

\* handleScan without its `finally` block
handleScanFinally_Absent == UNCHANGED <<isScanning, isCapturing>>

\* the `finally` block of handleScan without setIsCapturing(false)
handleScanFinally_KeepsCapturing ==
    /\ isScanning' = SetState(isScanning, FALSE)
    /\ UNCHANGED isCapturing

\* the `finally` block of handleScan
handleScanFinally ==
    /\ isScanning' = SetState(isScanning, FALSE)
    /\ isCapturing' = SetState(isCapturing, FALSE)

\* the condition under which handleScan stages the returned plate
PlateFound(rev, plateNumber) ==
    IF rev = "part_000"
    THEN plateNumber # <<>>
    ELSE plateNumber # <<>> /\ Len(trim(plateNumber)) > 0

\* the argument of setDetectedPlate on that branch
StagedPlate(rev, plateNumber) ==
    IF rev = "scan_history" THEN toUpperCase(plateNumber) ELSE plateNumber

\* a click on the scan button: nothing happens while it is disabled;
\* otherwise handleScan runs up to its await.  getContext('2d') may
\* return null, and then the handler fails before it issues a call.
ClickScan ==
    /\ mounted
    /\ IF ScanButtonDisabled \/ handleScanReturnsEarly
       THEN /\ lastOp' = "scan_refused"
            /\ UNCHANGED <<isScanning, isCapturing, outstanding, toast>>
       ELSE \E ctx \in (IF UsesCanvas(revision) THEN BOOLEAN ELSE {TRUE}) :
              IF ctx
              THEN /\ outstanding < MaxOutstanding
                   /\ handleScanBegin
                   /\ outstanding' = outstanding + 1
                   /\ lastOp' = "scan_started"
                   /\ UNCHANGED toast
              ELSE /\ handleScanFinally
                   /\ toast' = "Scan Failed"
                   /\ lastOp' = "scan_no_context"
                   /\ UNCHANGED outstanding
    /\ UNCHANGED <<revision, mounted, acquisition, stream, closureStream,
                   liveStreams, detectedPlate, onScanCalls, lastEmitted,
                   accepts>>
    /\ UNCHANGED nonCameraVars

\* the rest of handleScan, run when the awaited call settles with `result`
handleScanResume(result) ==
    /\ IF result.kind = "ok"
       THEN IF PlateFound(revision, result.plateNumber)
            THEN /\ detectedPlate' =
                       SetState(detectedPlate,
                                StagedPlate(revision, result.plateNumber))
                 /\ toast' = "Plate Detected"
                 /\ lastOp' = "scan_staged"
            ELSE /\ IF revision = "part_000"
                    THEN /\ \E fallback \in mockPlates :
                              detectedPlate' = SetState(detectedPlate, fallback)
                         /\ UNCHANGED toast
                    ELSE /\ toast' = "No Plate Found"
                         /\ UNCHANGED detectedPlate
                 /\ lastOp' = IF result.plateNumber = <<>>
                              THEN "scan_empty" ELSE "scan_blank"
       ELSE /\ toast' = "Scan Failed"
            /\ lastOp' = "scan_error"
            /\ UNCHANGED detectedPlate
    /\ handleScanFinally

\* the recognition call settles, whatever the service answered
RecognitionSettles(resp) ==
    /\ outstanding > 0
    /\ outstanding' = outstanding - 1
    /\ handleScanResume(initiateScanWithPrompt(flowRevision,
                                               ScanRequest(revision), resp))
    /\ UNCHANGED <<revision, mounted, acquisition, stream, closureStream,
                   liveStreams, onScanCalls, lastEmitted, accepts>>
    /\ UNCHANGED nonCameraVars

\* the card without the `!isScanning` half of its condition
DetectionCardShown_IgnoresScanning == mounted /\ Truthy(detectedPlate)

\* {detectedPlate && !isScanning && (<Card> ... Redo, Save ...)}
DetectionCardShown == mounted /\ Truthy(detectedPlate) /\ ~isScanning

\* savePlate without its onScan call
savePlate_NoOnScan ==
    IF Truthy(detectedPlate)
    THEN /\ detectedPlate' = SetState(detectedPlate, Null)
         /\ toast' = "Saved"
         /\ UNCHANGED <<onScanCalls, lastEmitted>>
    ELSE UNCHANGED <<onScanCalls, lastEmitted, detectedPlate, toast>>

\* savePlate without setDetectedPlate(null)
savePlate_KeepsStaged ==
    IF Truthy(detectedPlate)
    THEN /\ onScanCalls' = onScanCalls + 1
         /\ lastEmitted' = detectedPlate
         /\ toast' = "Saved"
         /\ UNCHANGED detectedPlate
    ELSE UNCHANGED <<onScanCalls, lastEmitted, detectedPlate, toast>>

savePlate ==
    IF Truthy(detectedPlate)
    THEN /\ onScanCalls' = onScanCalls + 1
         /\ lastEmitted' = detectedPlate
         /\ detectedPlate' = SetState(detectedPlate, Null)
         /\ toast' = "Saved"
    ELSE UNCHANGED <<onScanCalls, lastEmitted, detectedPlate, toast>>

\* a click on Save
ClickSave ==
    /\ DetectionCardShown
    /\ accepts < MaxAccepts
    /\ accepts' = accepts + 1
    /\ savePlate
    /\ lastOp' = "save"
    /\ UNCHANGED <<revision, mounted, acquisition, stream, closureStream,
                   liveStreams, isScanning, isCapturing, outstanding>>
    /\ UNCHANGED nonCameraVars

\* a Redo handler that also hands the plate to onScan
redoPlate_CallsOnScan ==
    /\ detectedPlate' = SetState(detectedPlate, Null)
    /\ onScanCalls' = onScanCalls + 1
    /\ lastEmitted' = detectedPlate
    /\ UNCHANGED toast

\* onClick={() => setDetectedPlate(null)}
redoPlate ==
    /\ detectedPlate' = SetState(detectedPlate, Null)
    /\ UNCHANGED <<onScanCalls, lastEmitted, toast>>

\* a click on Redo
ClickRedo ==
    /\ DetectionCardShown
    /\ redoPlate
    /\ lastOp' = "redo"
    /\ UNCHANGED <<revision, mounted, acquisition, stream, closureStream,
                   liveStreams, isScanning, isCapturing, outstanding, accepts>>
    /\ UNCHANGED nonCameraVars

CameraNext ==
    \/ setupCamera
    \/ setupCameraResolved
    \/ setupCameraRejected
    \/ Unmount
    \/ ClickScan
    \/ \E resp \in ServiceResponses : RecognitionSettles(resp)
    \/ ClickSave
    \/ ClickRedo

Next == CameraNext

\* one CameraScanner instance, from its first render on
Spec == Init /\ [][Next]_vars

\* every recognition call that is awaited settles: it resolves or rejects
RecognitionCallsSettle ==
    WF_vars(\E resp \in ServiceResponses : RecognitionSettles(resp))

\* one CameraScanner instance whose recognition calls all settle
FairSpec == Spec /\ RecognitionCallsSettle

(***************************************************************************)
(* The recognition adapter, called directly with any request.              *)
(***************************************************************************)
AdapterInit ==
    /\ flowRevision \in FlowRevisions
    /\ revision = IF flowRevision = "prompt" THEN "part_000"
                                             ELSE "camera_scanner"
    /\ CameraFirstRender
    /\ AdapterIdle
    /\ HistoryInit

\* initiateScanWithPrompt(req) is called: the flow validates its input
\* before it calls the prompt
CallAdapter(req) ==
    /\ adapterPc # "awaiting"
    /\ adapterCalls < MaxAdapterCalls
    /\ adapterCalls' = adapterCalls + 1
    /\ adapterRequest' = req
    /\ adapterResponse' = NoResponse
    /\ IF InitiateScanWithPromptInputSchema(flowRevision, req)
       THEN /\ adapterPc' = "awaiting"
            /\ adapterResult' = NoResult
       ELSE /\ adapterPc' = "threw"
            /\ adapterResult' =
                   initiateScanWithPrompt(flowRevision, req, NoResponse)
    /\ UNCHANGED <<flowRevision, cameraVars, historyVars>>

\* the prompt call settles and the flow returns or throws
ServiceAnswers(resp) ==
    /\ adapterPc = "awaiting"
    /\ adapterResponse' = resp
    /\ adapterResult' =
           initiateScanWithPrompt(flowRevision, adapterRequest, resp)
    /\ adapterPc' = IF adapterResult'.kind = "ok" THEN "returned" ELSE "threw"
    /\ UNCHANGED <<flowRevision, adapterRequest, adapterCalls, cameraVars,
                   historyVars>>

AdapterNext ==
    \/ \E req \in Requests : CallAdapter(req)
    \/ \E resp \in ServiceResponses : ServiceAnswers(resp)

\* direct calls of the recognition adapter
AdapterSpec == AdapterInit /\ [][AdapterNext]_vars

(***************************************************************************)
(* ScanHistory and the history log.                                        *)
(***************************************************************************)
\* ScanHistory is rendered beside the current CameraScanner revision
HistorySpecInit ==
    /\ revision = "camera_scanner"
    /\ flowRevision = FlowOf(revision)
    /\ CameraFirstRender
    /\ AdapterIdle
    /\ HistoryInit

\* two outputs of the recognition service that CameraScanner stages: a
\* one-line plate and a plate read as two lines
SampleOutputs == {<<"a">>, <<"a", "\n", "a">>}

\* the plates onScan receives for them
SavedPlates ==
    {StagedPlate(revision, p) :
        p \in {q \in SampleOutputs : PlateFound(revision, q)}}

\* the parent's onScan, called at time `now`: a record with the current
\* timestamp is appended (the record's id plays no part in ScanHistory's
\* handlers and is left out)
onScan(plate, now) ==
    /\ Len(history) < MaxHistory
    /\ clock' = now
    /\ history' = Append(history, [plateNumber |-> plate, timestamp |-> now])
    /\ historyOp' = "onScan"
    /\ UNCHANGED <<summary, isSummarizing, isSummaryOpen, pending,
                   summarizeCalls, lastScanHistory>>
    /\ UNCHANGED <<cameraVars, adapterVars>>

\* the parent's onClear: the log is emptied
onClear ==
    /\ Len(history) > 0
    /\ history' = <<>>
    /\ historyOp' = "onClear"
    /\ UNCHANGED <<clock, summary, isSummarizing, isSummaryOpen, pending,
                   summarizeCalls, lastScanHistory>>
    /\ UNCHANGED <<cameraVars, adapterVars>>

Digits == <<"0", "1", "2", "3", "4", "5", "6", "7", "8", "9">>

\* format(new Date(timestamp), "yyyy-MM-dd HH:mm:ss") for the first minute
\* of the epoch, in UTC
formatTimestamp(t) ==
    <<"1","9","7","0","-","0","1","-","0","1"," ","0","0",":","0","0",":">>
    \o <<Digits[(t \div 10) + 1], Digits[(t % 10) + 1]>>

\* `${h.plateNumber} at ${format(...)}`
historyLine(h) ==
    h.plateNumber \o <<" ", "a", "t", " ">> \o formatTimestamp(h.timestamp)

\* Array.prototype.join("\n")
RECURSIVE join(_)
join(lines) ==
    IF lines = <<>> THEN <<>>
    ELSE IF Len(lines) = 1 THEN lines[1]
    ELSE lines[1] \o <<"\n">> \o join(Tail(lines))

\* history.map(...).join("\n")
historyStr(h) == join([i \in DOMAIN h |-> historyLine(h[i])])

\* the message setSummary receives in the catch block
FailedSummary == [kind |-> "failed", request |-> 0]

\* handleGenerateSummary without its first line
handleGenerateSummaryReturnsEarly_Never == FALSE

\* `if (history.length === 0) return;`
handleGenerateSummaryReturnsEarly == Len(history) = 0

\* handleGenerateSummary up to its await
handleGenerateSummary ==
    /\ IF handleGenerateSummaryReturnsEarly
       THEN /\ historyOp' = "summary_refused"
            /\ UNCHANGED <<isSummarizing, isSummaryOpen, pending,
                           summarizeCalls, lastScanHistory>>
       ELSE /\ summarizeCalls < MaxSummaries
            /\ isSummarizing' = TRUE
            /\ isSummaryOpen' = TRUE
            /\ summarizeCalls' = summarizeCalls + 1
            /\ pending' = pending \cup {summarizeCalls + 1}
            /\ lastScanHistory' = historyStr(history)
            /\ historyOp' = "summary_requested"
    /\ UNCHANGED <<history, clock, summary>>
    /\ UNCHANGED <<cameraVars, adapterVars>>

\* handleGenerateSummary without its `finally` block
handleGenerateSummaryFinally_KeepsFlag == UNCHANGED isSummarizing

\* the `finally` block of handleGenerateSummary
handleGenerateSummaryFinally == isSummarizing' = FALSE

\* the rest of handleGenerateSummary, when call `id` resolves or rejects
SummarySettles(id, resolved) ==
    /\ id \in pending
    /\ pending' = pending \ {id}
    /\ summary' = IF resolved THEN [kind |-> "result", request |-> id]
                              ELSE FailedSummary
    /\ handleGenerateSummaryFinally
    /\ historyOp' = IF resolved THEN "summary_shown" ELSE "summary_failed"
    /\ UNCHANGED <<history, clock, isSummaryOpen, summarizeCalls,
                   lastScanHistory>>
    /\ UNCHANGED <<cameraVars, adapterVars>>

\* the dialog's Close button and onOpenChange
CloseSummary ==
    /\ isSummaryOpen
    /\ isSummaryOpen' = FALSE
    /\ historyOp' = "close"
    /\ UNCHANGED <<history, clock, summary, isSummarizing, pending,
                   summarizeCalls, lastScanHistory>>
    /\ UNCHANGED <<cameraVars, adapterVars>>

HistoryNext ==
    \/ \E plate \in SavedPlates, now \in clock..MaxClock : onScan(plate, now)
    \/ onClear
    \/ handleGenerateSummary
    \/ \E id \in 1..MaxSummaries, resolved \in BOOLEAN :
          SummarySettles(id, resolved)
    \/ CloseSummary

\* ScanHistory over a history that the parent appends to and clears
HistorySpec == HistorySpecInit /\ [][HistoryNext]_vars

(***************************************************************************)
(* Claims about the CameraScanner workflow (specification Spec).           *)
(***************************************************************************)

\* C1: at most one recognition call is outstanding at any time, and a click
\* on the scan button while a call is outstanding starts no call and leaves
\* the in-flight flags and the staged plate as they were.
C1_AtMostOneOutstandingCall ==
    /\ [](outstanding <= 1)
    /\ [][(outstanding > 0 /\ ClickScan)
            => UNCHANGED <<outstanding, isCapturing, isScanning,
                           detectedPlate>>]_vars

\* a click was refused while a recognition call was outstanding
C1_Witness == lastOp = "scan_refused" /\ outstanding = 1 /\ isCapturing

\* C2: once the instance is unmounted and its acquisition has settled, no
\* stream it acquired has live tracks.
C2_NoLiveStreamAfterTeardown ==
    (~mounted /\ acquisition \in {"resolved", "rejected"}) => liveStreams = {}

\* C3: the number of onScan calls equals the number of Save clicks on a
\* staged plate, and a Redo click calls onScan not at all.
C3_EmitsEqualAccepts ==
    /\ [](onScanCalls = accepts)
    /\ [][ClickRedo => UNCHANGED <<onScanCalls, lastEmitted>>]_vars

\* a Redo after a Save: one record emitted, the second staged plate rejected
C3_Witness == lastOp = "redo" /\ accepts = 1 /\ onScanCalls = 1

\* C4: when the call of a capture resolves with plateNumber "", the staged
\* plate is not set from it, "No Plate Found" is shown, the in-flight flags
\* are cleared and no onScan call is made (stated for a mounted instance).
C4_EmptyResultStagesNothing ==
    [][(mounted /\ lastOp' = "scan_empty" /\ \E r \in ServiceResponses :
                                                  RecognitionSettles(r))
         => /\ detectedPlate' = detectedPlate
            /\ toast' = "No Plate Found"
            /\ ~isCapturing' /\ ~isScanning'
            /\ onScanCalls' = onScanCalls]_vars

\* C5: whenever a plate p returned by the call is staged, the staged plate
\* is toUpperCase(trim(p)) (stated for a mounted instance).
C5_StagedIsTrimmedUpperCase ==
    [][\A r \in ServiceResponses :
          (mounted /\ lastOp' = "scan_staged" /\ RecognitionSettles(r))
            => detectedPlate' = toUpperCase(trim(r.plateNumber))]_vars

\* C10 as stated: after a failed acquisition the mounted instance can
\* attempt the acquisition again.
C10_RetryAfterFailure ==
    (mounted /\ acquisition = "rejected") => ENABLED setupCamera

\* C10 amended: a failed acquisition shows the "Camera Error" toast, and from
\* then on the instance never attempts acquisition again: it keeps no stream,
\* its scan button stays disabled and it issues no recognition call.
C10_FailureIsFinalForInstance ==
    /\ [][setupCameraRejected => toast' = "Camera Error"]_vars
    /\ [][acquisition = "rejected" => acquisition' = "rejected"]_vars
    /\ [](acquisition = "rejected"
            => /\ stream = NoStream
               /\ liveStreams = {}
               /\ outstanding = 0
               /\ (mounted => ScanButtonDisabled)
               /\ ~ENABLED setupCamera)

\* a click on the scan button after the acquisition failed
C10_Witness ==
    /\ mounted /\ acquisition = "rejected" /\ toast = "Camera Error"
    /\ lastOp = "scan_refused"

\* C12: handleScan gets past its first line, and a recognition call is
\* issued, only in a state that holds the acquired stream; while the
\* acquisition has not started, is pending or has failed, no call is
\* outstanding.
C12_CaptureOnlyWithStream ==
    /\ [][lastOp' \in {"scan_started", "scan_no_context"} /\ ClickScan
            => stream # NoStream /\ acquisition = "resolved"]_vars
    /\ [][outstanding' > outstanding
            => stream # NoStream /\ acquisition = "resolved"]_vars
    /\ [](acquisition # "resolved" => outstanding = 0)

\* a call was issued after the acquisition resolved
C12_Witness ==
    /\ lastOp = "scan_started" /\ outstanding = 1
    /\ acquisition = "resolved" /\ stream = UserStream

\* C13: while a recognition call is outstanding no staged plate is held.
C13_NoStagedPlateWhileCapturing ==
    outstanding > 0 => detectedPlate = Null

\* C14: a plate that is staged when a capture is triggered is gone once that
\* capture has ended without a plate (empty or blank result, or an error):
\* the card does not show it again (stated for a mounted instance; a result
\* with a plate replaces it in every revision).
C14_StagedPlateDestroyedByCapture ==
    [][(/\ mounted /\ Truthy(detectedPlate)
        /\ lastOp' \in {"scan_empty", "scan_blank", "scan_error"}
        /\ \E r \in ServiceResponses : RecognitionSettles(r))
         => ~(DetectionCardShown' /\ detectedPlate' = detectedPlate)]_vars

\* C15: a Save click calls onScan once, with the staged plate, and clears
\* the staged plate; while no plate is staged a Save click is not possible,
\* and a plate is staged again only by a capture whose call has resolved.
C15_SaveEmitsStagedPlateOnce ==
    /\ [][ClickSave => /\ onScanCalls' = onScanCalls + 1
                       /\ lastEmitted' = detectedPlate
                       /\ detectedPlate' = Null]_vars
    /\ [](detectedPlate = Null => ~ENABLED ClickSave)
    /\ [][(detectedPlate = Null /\ detectedPlate' # Null)
            => /\ lastOp' \in {"scan_staged", "scan_empty", "scan_blank"}
               /\ \E r \in ServiceResponses : RecognitionSettles(r)]_vars

\* the second of two accepted plates, each staged by its own capture
C15_Witness ==
    /\ lastOp = "save" /\ onScanCalls = 2
    /\ lastEmitted = <<"a">> /\ detectedPlate = Null

\* C16: a staged plate, and a plate passed to onScan, is never empty and
\* never consists of white space only.
C16_NoBlankPlateStagedOrEmitted ==
    /\ detectedPlate # Null => Len(trim(detectedPlate)) > 0
    /\ lastEmitted # Null => Len(trim(lastEmitted)) > 0

\* C17: when the recognition call of a mounted instance rejects, handleScan
\* shows the "Scan Failed" toast, leaves the staged plate and the emitted
\* records as they were, clears both in-flight flags, and the next click on
\* the scan button is not refused.
C17_ErrorHandledInHandleScan ==
    [][(/\ mounted /\ lastOp' = "scan_error"
        /\ \E r \in ServiceResponses : RecognitionSettles(r))
         => /\ toast' = "Scan Failed"
            /\ detectedPlate' = detectedPlate
            /\ UNCHANGED <<onScanCalls, lastEmitted>>
            /\ ~isCapturing' /\ ~isScanning'
            /\ outstanding' = 0
            /\ ~(ScanButtonDisabled \/ handleScanReturnsEarly)']_vars

\* the call of a capture was rejected
C17_Witness ==
    /\ mounted /\ lastOp = "scan_error" /\ toast = "Scan Failed"
    /\ ~isCapturing /\ outstanding = 0 /\ detectedPlate = Null

\* C18 (under FairSpec): a mounted instance that is capturing eventually is
\* not capturing any more; whenever the call of a mounted instance settles,
\* with a plate, without one or with an error, both in-flight flags are
\* false afterwards and the next click on the scan button is not refused.
C18_CaptureEventuallyEnds ==
    /\ (mounted /\ isCapturing) ~> (~mounted \/ ~isCapturing)
    /\ [][(mounted /\ lastOp' \in {"scan_staged", "scan_empty", "scan_blank",
                                    "scan_error"})
            => /\ ~isCapturing' /\ ~isScanning'
               /\ ~(ScanButtonDisabled \/ handleScanReturnsEarly)']_vars

\* a capture has ended on a blank result and the scan button is enabled
C18_Witness ==
    /\ mounted /\ lastOp = "scan_blank" /\ outstanding = 0
    /\ ~isCapturing /\ ~isScanning /\ ~ScanButtonDisabled

\* C19: a Redo click clears the staged plate and changes nothing else: no
\* onScan call, the stream, its tracks and the in-flight flags as before, no
\* call issued or settled; afterwards a click on the scan button is not
\* refused.
C19_RedoOnlyClearsStagedPlate ==
    [][ClickRedo
         => /\ detectedPlate' = Null
            /\ UNCHANGED <<onScanCalls, lastEmitted, accepts, acquisition,
                           stream, liveStreams, isCapturing, isScanning,
                           outstanding, toast, mounted, nonCameraVars>>
            /\ ~(ScanButtonDisabled \/ handleScanReturnsEarly)']_vars

\* the first staged plate was rejected and the scan button is enabled
C19_Witness ==
    /\ lastOp = "redo" /\ detectedPlate = Null /\ onScanCalls = 0
    /\ stream = UserStream /\ ~ScanButtonDisabled

\* C20: while a recognition call is outstanding the card with Redo and Save
\* is not shown; Save and Redo clicks happen, and onScan is called, only
\* while no call is outstanding and the in-flight flags are false.
C20_NoConfirmationWhileCapturing ==
    /\ [](outstanding > 0 => ~DetectionCardShown)
    /\ [][(ClickSave \/ ClickRedo)
            => outstanding = 0 /\ ~isCapturing /\ ~isScanning]_vars
    /\ [][onScanCalls' # onScanCalls => outstanding = 0]_vars

\* a call is outstanding while an earlier plate is still held: the card is
\* hidden
C20_Witness ==
    /\ mounted /\ outstanding = 1 /\ isScanning
    /\ Truthy(detectedPlate) /\ ~DetectionCardShown

C6_NoSummaryCallOnEmptyHistory ==
    /\ [][(Len(history) = 0 /\ handleGenerateSummary)
            => UNCHANGED <<summarizeCalls, pending, summary, isSummarizing,
                           isSummaryOpen, lastScanHistory>>]_vars
    /\ [][summarizeCalls' # summarizeCalls => Len(history) > 0]_vars

\* a summary request was refused over a history that had been cleared
C6_Witness ==
    historyOp = "summary_refused" /\ Len(history) = 0 /\ summarizeCalls > 0

\* the first line break of a text, 0 when it has none
RECURSIVE indexOfNewline(_, _)
indexOfNewline(text, from) ==
    IF from > Len(text) THEN 0
    ELSE IF text[from] = "\n" THEN from
    ELSE indexOfNewline(text, from + 1)

\* the lines of a text
RECURSIVE splitLines(_)
splitLines(text) ==
    LET i == indexOfNewline(text, 1) IN
    IF i = 0 THEN <<text>>
    ELSE <<SubSeq(text, 1, i - 1)>> \o splitLines(SubSeq(text, i + 1, Len(text)))

\* C7: the lines of the text submitted to summarizeScanHistory are, in the
\* history's order, one line per record: plateNumber, " at ", timestamp.
C7_OneLinePerRecord ==
    [][summarizeCalls' # summarizeCalls
         => splitLines(lastScanHistory')
              = [i \in DOMAIN history |-> historyLine(history[i])]]_vars

\* C11: when the call of a summary request rejects, the handler ends
\* normally: no further call is issued for the request, the summary holds the
\* failure message and is what the dialog displays, and isSummarizing is
\* false.
C11_FailureHandledInHandler ==
    [][\A id \in 1..MaxSummaries :
          SummarySettles(id, FALSE)
            => /\ historyOp' = "summary_failed"
               /\ summarizeCalls' = summarizeCalls
               /\ pending' = pending \ {id}
               /\ summary'.kind = "failed"
               /\ ~isSummarizing']_vars

\* the one call of a request was rejected and the failure message is shown
C11_Witness ==
    /\ historyOp = "summary_failed"
    /\ summarizeCalls = 1 /\ pending = {}
    /\ summary.kind = "failed" /\ ~isSummarizing /\ isSummaryOpen

\* C21: isSummarizing is true in every state in which a call of
\* summarizeScanHistory is outstanding, and once no call is outstanding a
\* displayed result is the result of the request issued last.
C21_LatestSummaryShown ==
    /\ pending # {} => isSummarizing
    /\ (pending = {} /\ summary.kind = "result")
         => summary.request = summarizeCalls

(***************************************************************************)
(* Claims about the recognition adapter (specification AdapterSpec).       *)
(***************************************************************************)
\* the call was refused with an input error
RejectedInput ==
    adapterPc = "threw" /\ adapterResult.error = "invalid_input"

\* C8 as stated: the adapter rejects with an input error exactly the
\* requests that carry neither an image nor a hint.
C8_RejectsExactlyEmptyRequests ==
    adapterPc # "idle"
      => (RejectedInput
            <=> (~adapterRequest.prompt /\ ~adapterRequest.photoDataUri))

\* C8 amended: the adapter rejects with an input error exactly the requests
\* that lack the one field its revision requires: the image for the image
\* flow, the hint for the earlier prompt flow.
C8_RejectsExactlyMissingRequiredField ==
    adapterPc # "idle"
      => (RejectedInput
            <=> IF flowRevision = "image" THEN ~adapterRequest.photoDataUri
                                          ELSE ~adapterRequest.prompt)

\* the image flow refused a request that carries a hint only
C8_Witness ==
    /\ flowRevision = "image"
    /\ adapterRequest = [prompt |-> TRUE, photoDataUri |-> FALSE]
    /\ RejectedInput

\* C9 as stated: the plateNumber returned is the service's output with
\* leading and trailing white space removed.
C9_ReturnsTrimmedOutput ==
    adapterPc = "returned"
      => adapterResult.plateNumber = trim(adapterResponse.plateNumber)

\* C9 amended: the plateNumber returned is the service's output, unchanged:
\* no white space is removed.
C9_ReturnsOutputUnchanged ==
    adapterPc = "returned"
      => /\ adapterResult.kind = "ok"
         /\ adapterResult.plateNumber = adapterResponse.plateNumber

\* an output with leading white space was returned as it came
C9_Witness ==
    /\ adapterPc = "returned"
    /\ adapterResponse.plateNumber = <<" ", "a">>
    /\ adapterResult.plateNumber = <<" ", "a">>

====
